---- MODULE Spec2Model ----
(***************************************************************************)
(* A model of pydlm/modeler/longSeason.py: the longSeason component, its   *)
(* feature matrix and its two-counter cyclic state.                        *)
(*                                                                         *)
(* Python lists are 0-based; sequences here are 1-based.  The state list   *)
(* [outer, inner] is the pair <<outer, inner>>: currentState[0] in the     *)
(* source is state[1] here, currentState[1] is state[2].                   *)
(*                                                                         *)
(* An entry of self.features is one of three kinds of Python object:       *)
(*   "row"      a fresh list of `period` numbers (val is the list);        *)
(*   "list"     a list of rows (val is the sequence of rows);              *)
(*   "stateref" the very list object self.currentState refers to, so that  *)
(*              its value is whatever currentState holds at the moment.    *)
(***************************************************************************)
EXTENDS Integers, Sequences, FiniteSets, TLC

\* ------------------------------------------------------------------ bounds
MaxPeriod == 3
MaxStay == 3
MaxData == 4
MaxAppend == 2
MaxOps == 4
MaxDate == 1
MaxFnSteps == 2

VARIABLES
    period,        \* self.period
    stay,          \* self.stay
    features,      \* self.features (held by the base class dynamic)
    n,             \* self.n        (held by the base class dynamic)
    d,             \* self.d        (held by the base class dynamic)
    currentState,  \* self.currentState, <<outer, inner>>
    phase,         \* "new": not constructed; "live": constructed;
                   \* "failed": the constructor raised; "fn": a bare state pair
    err,           \* the exception the last call raised, or "none"
    warned,        \* whether the last call printed popout's warning
    ops,           \* history: calls made on the constructed component
    lastOp,        \* history: the last call
    count,         \* history: the number of observations of the last
                   \* generating call (advance steps taken, for a bare pair)
    pops,          \* history: successful retreat steps since `mark`
    pre,           \* history: matrix value, n and state before the last call
    mark           \* history: matrix value, n and state before the last
                   \* appendNewData and its len(newData) k (k = -1: none yet);
                   \* for a bare pair, the pair before the first step

vars == <<period, stay, features, n, d, currentState, phase, err, warned,
          ops, lastOp, count, pops, pre, mark>>

\* ------------------------------------------------------- python semantics
\* `currentState == 0` compares a list with an int: list.__eq__ returns
\* NotImplemented for a non-list operand and the comparison is False.
ListEqInt(list, i) == FALSE

\* [0] * period, then new_feature[idx] = 1
OneHot(p, idx) == [i \in 1..p |-> IF i = idx + 1 THEN 1 ELSE 0]

\* ------------------------------------------------- the cyclic transitions
\* One iteration of createFeatureMatrix's loop on the state list.
advance(p, s, state) ==
    LET st1 == <<state[1], (state[2] + 1) % s>>
    IN  IF ListEqInt(st1, 0)
        THEN <<(st1[1] + 1) % p, st1[2]>>
        ELSE st1

\* popout's roll-back without the corner case of outer = 0.
retreat_nowrap(p, s, state) ==
    IF state[2] = 0
    THEN <<state[1] - 1, s - 1>>
    ELSE <<state[1], state[2] - 1>>

\* The state roll-back at the end of popout.
retreat(p, s, state) ==
    IF state[2] = 0
    THEN IF state[1] = 0
         THEN <<p - 1, s - 1>>
         ELSE <<state[1] - 1, s - 1>>
    ELSE <<state[1], state[2] - 1>>

RECURSIVE createFeatureMatrix(_, _, _, _)
createFeatureMatrix(p, s, cnt, state) ==
    IF cnt <= 0
    THEN [features |-> <<>>, currentState |-> state]
    ELSE LET st == advance(p, s, state)
             rest == createFeatureMatrix(p, s, cnt - 1, st)
         IN  [features |-> <<OneHot(p, st[1])>> \o rest.features,
              currentState |-> rest.currentState]

\* ------------------------------------------------------ values of entries
Row(r) == [kind |-> "row", val |-> r]
RowList(rs) == [kind |-> "list", val |-> rs]
StateRef == [kind |-> "stateref", val |-> <<>>]

\* The value an entry has when read while the state list holds `state`.
Deref(e, state) ==
    [nested |-> e.kind = "list",
     val |-> IF e.kind = "stateref" THEN state ELSE e.val]

\* The matrix by value.
Snapshot(fs, state) == [i \in 1..Len(fs) |-> Deref(fs[i], state)]

EqEntry(a, b) == a.nested = b.nested /\ a.val = b.val

EqMatrix(A, B) ==
    /\ Len(A) = Len(B)
    /\ \A i \in 1..Len(A) : EqEntry(A[i], B[i])

Here == [features |-> Snapshot(features, currentState),
         n |-> n,
         state |-> currentState]

\* ------------------------------------------------------------- base class
\* dynamic.__init__ stores the features and derives n and d from them.
dynamic_init(fs, p) ==
    [features |-> [i \in 1..Len(fs) |-> Row(fs[i])],
     n |-> Len(fs),
     d |-> p]

\* ------------------------------------------------------------- operations
\* checkDataLength with the comparison made strict.
checkDataLength_strict(d_, n_) == d_ > n_

\* checkDataLength raises when this holds.
checkDataLength(d_, n_) == d_ >= n_

Init ==
    /\ period \in 1..MaxPeriod
    /\ stay \in 1..MaxStay
    /\ features = <<>>
    /\ n = 0
    /\ d = 0
    /\ currentState = <<0, 0>>
    /\ phase = "new"
    /\ err = "none"
    /\ warned = FALSE
    /\ ops = 0
    /\ lastOp = "none"
    /\ count = 0
    /\ pops = 0
    /\ pre = [features |-> <<>>, n |-> 0, state |-> <<0, 0>>]
    /\ mark = [features |-> <<>>, n |-> 0, state |-> <<0, 0>>, k |-> -1]

\* longSeason.__init__ with len(data) = dataLen: the features are generated
\* and handed to dynamic.__init__ before checkDataLength runs.
longSeason_init(dataLen) ==
    /\ phase = "new"
    /\ LET res == createFeatureMatrix(period, stay, dataLen, <<0, 0>>)
           base == dynamic_init(res.features, period)
       IN  /\ currentState' = res.currentState
           /\ features' = base.features
           /\ n' = base.n
           /\ d' = base.d
           /\ IF checkDataLength(base.d, base.n)
              THEN phase' = "failed" /\ err' = "NameError"
              ELSE phase' = "live" /\ err' = "none"
    /\ warned' = FALSE
    /\ lastOp' = "construct"
    /\ count' = dataLen
    /\ pre' = Here
    /\ UNCHANGED <<period, stay, ops, pops, mark>>

\* appendNewData with len(newData) = k.  createFeatureMatrix mutates the list
\* self.currentState in place and returns the pair (features, currentState);
\* list.extend adds the two members of that pair to self.features.
appendNewData(k) ==
    /\ phase = "live"
    /\ ops < MaxOps
    /\ LET newFeatures == createFeatureMatrix(period, stay, k, currentState)
       IN  /\ currentState' = newFeatures.currentState
           /\ features' = features \o
                          <<RowList(newFeatures.features), StateRef>>
    /\ n' = Len(features')
    /\ err' = "none"
    /\ warned' = FALSE
    /\ ops' = ops + 1
    /\ lastOp' = "appendNewData"
    /\ count' = k
    /\ pops' = 0
    /\ pre' = Here
    /\ mark' = [features |-> Here.features, n |-> n,
                state |-> currentState, k |-> k]
    /\ UNCHANGED <<period, stay, d, phase>>

\* popout with `self.n -= 1` left out.
popout_keeps_n(date) ==
    /\ phase = "live"
    /\ ops < MaxOps
    /\ warned' = TRUE
    /\ ops' = ops + 1
    /\ lastOp' = "popout"
    /\ pre' = Here
    /\ IF features = <<>>
       THEN /\ err' = "IndexError"
            /\ UNCHANGED <<features, currentState, pops>>
       ELSE /\ features' = SubSeq(features, 1, Len(features) - 1)
            /\ currentState' = retreat(period, stay, currentState)
            /\ err' = "none"
            /\ pops' = pops + 1
    /\ UNCHANGED <<period, stay, d, phase, count, mark, n>>

\* popout with `self.n -= 1` and the roll-back of the state moved before
\* `self.features.pop()`: on an empty list both have happened when pop raises.
popout_pops_last(date) ==
    /\ phase = "live"
    /\ ops < MaxOps
    /\ warned' = TRUE
    /\ ops' = ops + 1
    /\ lastOp' = "popout"
    /\ pre' = Here
    /\ n' = n - 1
    /\ currentState' = retreat(period, stay, currentState)
    /\ IF features = <<>>
       THEN /\ err' = "IndexError"
            /\ UNCHANGED <<features, pops>>
       ELSE /\ features' = SubSeq(features, 1, Len(features) - 1)
            /\ err' = "none"
            /\ pops' = pops + 1
    /\ UNCHANGED <<period, stay, d, phase, count, mark>>

\* popout with the warning printed only when the call goes through.
popout_warns_late(date) ==
    /\ phase = "live"
    /\ ops < MaxOps
    /\ ops' = ops + 1
    /\ lastOp' = "popout"
    /\ pre' = Here
    /\ IF features = <<>>
       THEN /\ err' = "IndexError"
            /\ warned' = FALSE
            /\ UNCHANGED <<features, n, currentState, pops>>
       ELSE /\ features' = SubSeq(features, 1, Len(features) - 1)
            /\ n' = n - 1
            /\ currentState' = retreat(period, stay, currentState)
            /\ err' = "none"
            /\ warned' = TRUE
            /\ pops' = pops + 1
    /\ UNCHANGED <<period, stay, d, phase, count, mark>>

\* popout(date): the warning is printed first; list.pop() on an empty list
\* raises IndexError before anything is changed.  `date` is never read.
popout(date) ==
    /\ phase = "live"
    /\ ops < MaxOps
    /\ warned' = TRUE
    /\ ops' = ops + 1
    /\ lastOp' = "popout"
    /\ pre' = Here
    /\ IF features = <<>>
       THEN /\ err' = "IndexError"
            /\ UNCHANGED <<features, n, currentState, pops>>
       ELSE /\ features' = SubSeq(features, 1, Len(features) - 1)
            /\ n' = n - 1
            /\ currentState' = retreat(period, stay, currentState)
            /\ err' = "none"
            /\ pops' = pops + 1
    /\ UNCHANGED <<period, stay, d, phase, count, mark>>

Next ==
    \/ \E dataLen \in 0..MaxData : longSeason_init(dataLen)
    \/ \E k \in 0..MaxAppend : appendNewData(k)
    \/ \E date \in 0..MaxDate : popout(date)

Spec == Init /\ [][Next]_vars

\* ------------------------------------- the transitions on a bare state pair
\* Any valid pair (outer, inner) of any period and stay.
InitFn ==
    /\ period \in 1..MaxPeriod
    /\ stay \in 1..MaxStay
    /\ currentState \in (0..(period - 1)) \X (0..(stay - 1))
    /\ features = <<>>
    /\ n = 0
    /\ d = 0
    /\ phase = "fn"
    /\ err = "none"
    /\ warned = FALSE
    /\ ops = 0
    /\ lastOp = "none"
    /\ count = 0
    /\ pops = 0
    /\ pre = [features |-> <<>>, n |-> 0, state |-> currentState]
    /\ mark = [features |-> <<>>, n |-> 0, state |-> currentState, k |-> -1]

\* One pass of createFeatureMatrix's loop: the state moves forward and the
\* row it selects is generated.
FnAdvance ==
    /\ phase = "fn"
    /\ pops = 0
    /\ count < MaxFnSteps
    /\ LET res == createFeatureMatrix(period, stay, 1, currentState)
       IN  /\ currentState' = res.currentState
           /\ features' = features \o
                          [i \in 1..Len(res.features) |-> Row(res.features[i])]
    /\ n' = Len(features')
    /\ lastOp' = "advance"
    /\ count' = count + 1
    /\ pre' = Here
    /\ UNCHANGED <<period, stay, d, phase, err, warned, ops, pops, mark>>

\* popout's removal of the last row and its roll-back of the state.
FnRetreat ==
    /\ phase = "fn"
    /\ pops < count
    /\ features' = SubSeq(features, 1, Len(features) - 1)
    /\ n' = n - 1
    /\ currentState' = retreat(period, stay, currentState)
    /\ lastOp' = "retreat"
    /\ pops' = pops + 1
    /\ pre' = Here
    /\ UNCHANGED <<period, stay, d, phase, err, warned, ops, count, mark>>

NextFn == FnAdvance \/ FnRetreat

SpecFn == InitFn /\ [][NextFn]_vars

\* --------------------------------------------------------------- properties
\* The matrix as it reads now.
Now == Snapshot(features, currentState)

\* A value that is a flat list of p numbers, one of them 1 and the others 0.
IsOneHot(v, p) ==
    /\ ~v.nested
    /\ Len(v.val) = p
    /\ \A j \in 1..p : v.val[j] \in {0, 1}
    /\ Cardinality({j \in 1..p : v.val[j] = 1}) = 1

\* C1: one advance step of createFeatureMatrix followed by one retreat step
\* of popout returns every valid state pair to itself.
C1_RoundTrip ==
    (phase = "fn" /\ count = 1 /\ pops = 1) => currentState = mark.state

\* C2: the i-th row generated from state (0,0) is the one-hot row at index
\* floor(i / stay) mod period, so the outer index moves once every `stay` rows.
C2_CyclePattern ==
    (phase = "live" /\ lastOp = "construct") =>
        \A i \in 1..Len(features) :
            EqEntry(Now[i],
                    [nested |-> FALSE,
                     val |-> OneHot(period, (i \div stay) % period)])

\* C3: appendNewData with k observations followed by k popout calls restores
\* the matrix by value and the stored state.
C3_AppendPopInverse ==
    (phase = "live" /\ mark.k >= 0 /\ pops = mark.k /\ err = "none") =>
        /\ EqMatrix(Now, mark.features)
        /\ currentState = mark.state

\* C4: appendNewData with `count` observations adds exactly `count` rows, the
\* ones `count` advance steps generate from the stored state, leaves the
\* state those steps reach, and sets n to the old n plus count.
C4_AppendExtends ==
    lastOp = "appendNewData" =>
        LET gen == createFeatureMatrix(period, stay, count, pre.state)
            old == Len(pre.features)
        IN  /\ Len(features) = old + count
            /\ n = pre.n + count
            /\ currentState = gen.currentState
            /\ \A i \in 1..count :
                   EqEntry(Now[old + i],
                           [nested |-> FALSE, val |-> gen.features[i]])

\* C5: the stored state is the state that as many advance steps as the
\* matrix has rows reach from (0,0).
C5_StoredState ==
    phase = "live" =>
        currentState =
            createFeatureMatrix(period, stay, Len(features),
                                <<0, 0>>).currentState

\* C6: after construction and after every appendNewData and popout call the
\* matrix has exactly n entries.
C6_LengthInvariant == phase # "new" => Len(features) = n

C6_Witness ==
    /\ lastOp = "popout" /\ err = "none"
    /\ mark.k >= 0
    /\ n > 0 /\ Len(features) = n

\* C7: every entry of the matrix is a row of `period` numbers, exactly one
\* of them 1 and the others 0.
C7_OneHotInvariant ==
    phase = "live" => \A i \in 1..Len(features) : IsOneHot(Now[i], period)

\* C8: popout on a non-empty matrix removes the last entry whatever `date`
\* is, leaves every other entry at its place with its value, and takes one
\* from n.
C8_PopRemovesLast ==
    (lastOp = "popout" /\ pre.features # <<>>) =>
        /\ Len(features) = Len(pre.features) - 1
        /\ \A i \in 1..Len(features) : EqEntry(Now[i], pre.features[i])
        /\ n = pre.n - 1

\* C9: the constructor raises exactly when period >= len(data).
C9_ConstructionCheck ==
    lastOp = "construct" =>
        /\ (err # "none") <=> (period >= count)
        /\ (phase = "failed") <=> (period >= count)
        /\ (phase = "live") <=> (period < count)

C9_Witness ==
    /\ lastOp = "construct"
    /\ period = count /\ period > 1
    /\ err = "NameError" /\ phase = "failed"

\* C10: popout on an empty matrix raises and leaves the matrix, n and the
\* stored state as they were.
C10_PopEmptyRaises ==
    (lastOp = "popout" /\ pre.features = <<>>) =>
        /\ err # "none"
        /\ features = <<>>
        /\ n = pre.n
        /\ currentState = pre.state

C10_Witness ==
    /\ lastOp = "popout"
    /\ pre.features = <<>>
    /\ err = "IndexError"
    /\ n = 0

\* The flat list value of a row.
Flat(r) == [nested |-> FALSE, val |-> r]

\* C11: appendNewData with an empty newData changes nothing: the matrix, n
\* and the stored state are as before, and nothing is raised.
C11_AppendEmptyNoOp ==
    (lastOp = "appendNewData" /\ count = 0) =>
        /\ err = "none"
        /\ EqMatrix(Now, pre.features)
        /\ n = pre.n
        /\ currentState = pre.state

\* C12: the stored state always has 0 <= outer < period and
\* 0 <= inner < stay.
C12_StateBounds ==
    /\ currentState[1] \in 0..(period - 1)
    /\ currentState[2] \in 0..(stay - 1)

C12_Witness ==
    /\ lastOp = "popout" /\ err = "none"
    /\ pre.state = <<0, 0>>
    /\ period > 1 /\ stay > 1
    /\ currentState = <<period - 1, stay - 1>>

\* C13: every popout call prints the warning, and on a non-empty matrix the
\* call that printed it still removes the last entry and rolls the state
\* back one step.
C13_WarningNeverAborts ==
    lastOp = "popout" =>
        /\ warned
        /\ pre.features # <<>> =>
               /\ err = "none"
               /\ Len(features) = Len(pre.features) - 1
               /\ currentState = retreat(period, stay, pre.state)

C13_Witness ==
    /\ lastOp = "popout"
    /\ warned
    /\ pre.features # <<>>
    /\ err = "none"
    /\ Len(features) = Len(pre.features) - 1
    /\ currentState # pre.state

\* C14: constructing with n observations and appending k gives the matrix
\* and the state that constructing with n + k observations gives.
C14_SeamlessAppend ==
    (lastOp = "appendNewData" /\ ops = 1) =>
        LET direct == createFeatureMatrix(period, stay, pre.n + count,
                                          <<0, 0>>)
        IN  /\ Len(features) = Len(direct.features)
            /\ \A i \in 1..Len(features) :
                   EqEntry(Now[i], Flat(direct.features[i]))
            /\ currentState = direct.currentState

\* C15: with stay = 1 every generated row moves the outer index on, so that
\* consecutive rows are one-hot at consecutive indices modulo period, and
\* inner is 0 after every step.
C15_StayOne ==
    (phase = "live" /\ lastOp = "construct" /\ stay = 1) =>
        /\ currentState[2] = 0
        /\ \A i \in 1..(Len(features) - 1) : \A j \in 0..(period - 1) :
               EqEntry(Now[i], Flat(OneHot(period, j))) =>
                   EqEntry(Now[i + 1], Flat(OneHot(period, (j + 1) % period)))

\* C16: whenever the matrix is not empty its last entry is the one-hot row
\* at the stored outer index.
C16_LastRowIsState ==
    (phase = "live" /\ features # <<>>) =>
        EqEntry(Now[Len(features)], Flat(OneHot(period, currentState[1])))

\* C17: an entry of the matrix keeps its value at its index through every
\* appendNewData and popout call for as long as it stays in the matrix.
C17_AppendFrame ==
    (lastOp \in {"appendNewData", "popout"} /\ mark.k >= 0) =>
        \A i \in 1..Len(features) :
            i <= Len(pre.features) => EqEntry(Now[i], pre.features[i])

\* C18: from any valid pair the forward transition first comes back to the
\* pair after exactly period * stay steps, having been through every pair.
C18_FullCycle ==
    (phase = "fn" /\ pops = 0 /\ count >= 1) =>
        /\ count < period * stay => currentState # mark.state
        /\ count = period * stay => currentState = mark.state

====
